---------------------------- MODULE Spec2Model ----------------------------
(***************************************************************************)
(* A model of the ROR import program (steve-canham/ror1).                  *)
(*                                                                         *)
(*  - import_data (src/src/import/mod.rs) as a state machine: one step per *)
(*    statement that reads the file, decodes it, visits a record, adds it  *)
(*    to an accumulator group, tests the index threshold, tests the batch  *)
(*    cadence, or calls / awaits store_data.                               *)
(*  - get_params (src/src/setup/mod.rs) as a second state machine over the *)
(*    same variables: command line and environment in, InitParams out.     *)
(*                                                                         *)
(* ror_data_vectors.rs, ror_json_models.rs, cli_reader.rs and              *)
(* env_reader.rs are not among the source files; what the model needs of   *)
(* them (extract_id_from, add_*, store_data, new) is written from the      *)
(* specification and from the way import_data uses it.                     *)
(***************************************************************************)
EXTENDS Integers, Sequences, FiniteSets, TLC

\* ------------------------------------------------------------------ bounds

\* Longest source array of the short runs.
MaxLen == 6
\* Largest batch size of the short runs (besides the shipped one).
MaxBatch == 3
\* store_data calls are numbered 1, 2, ...; a call numbered up to MaxFailAt may fail.
MaxFailAt == 4

\* ------------------------------------------------------- program constants

\* let vector_size = 200;
RefVectorSize == 200
\* if i > 1505 { break; }
BreakIndex == 1505

\* ------------------------------------------------------------------ inputs

\* The batch sizes tried: 1..MaxBatch and the shipped value.
BatchSizes == (1..MaxBatch) \cup {RefVectorSize}

\* The source-array lengths of the short runs.
ShortLens == 0..MaxLen

\* The lengths that reach the index threshold: the loop breaks in the
\* iteration with i = BreakIndex + 1, so BreakIndex + 2 records are the most
\* that are ever visited.
LongLens == {BreakIndex + 2, BreakIndex + 3}

\* A source file: whether it can be read, whether its text decodes into
\* Vec<RorRecord>, and how many array elements it holds.
Sources ==
    [readable : BOOLEAN, wellFormed : BOOLEAN, len : ShortLens \cup LongLens]

\* --------------------------------------------------------------- variables

VARIABLES
    source,        \* the file named by data_folder/source_file_name
    vector_size,   \* the batch size
    storageFails,  \* the store_data calls (by number) whose insert fails
    pc,            \* where import_data stands
    result,        \* what import_data returned: "none" while running
    res,           \* Vec<RorRecord>: whether it exists, and its length
    it,            \* how many elements res.iter().enumerate() has yielded
    i,             \* the index of the record being visited
    db_id,         \* the canonical identifier of the record being visited
    cdv, rdv, ndv, \* the three accumulator groups
    n,             \* the count logged at the last cadence flush
    total,         \* the number logged as "Total records processed"
    db,            \* the identifiers each group has stored, in insertion order
    inFlight,      \* the groups with a store_data call not yet returned
    storeCalls,    \* how many store_data calls were made
    ret,           \* what the last store_data call returned
    added,         \* history: the add calls of the current iteration
    lastFlush,     \* history: the flush cycle started last
    nCadence,      \* history: how many cadence flush cycles were started
    nFinal         \* history: how many final flush cycles were started

\* get_params
VARIABLES
    gp_pc,             \* where get_params stands
    gp_result,         \* what get_params returned: "none" while running
    cli_pars,          \* CliPars, from cli_reader::fetch_valid_arguments
    env,               \* the values env_reader reads from the environment
    created,           \* the folders fs::create_dir_all has made
    data_folder, data_folder_good, log_folder, output_folder,
    source_file_name, data_version, data_date, output_file_name

\* the file name functions, applied to a name by themselves
VARIABLES
    test_file_name,    \* the file name under test
    bare_file_name,    \* the same name with its date written without hyphens
    nm_pc,             \* which function is applied next
    nm_compliant,      \* is_compliant_file_name(test_file_name)
    nm_version,        \* get_data_version(test_file_name)
    nm_date,           \* get_data_date(test_file_name)
    nm_bare_date       \* get_data_date(bare_file_name)

importVars == <<source, vector_size, storageFails, pc, result, res, it, i,
                db_id, cdv, rdv, ndv, n, total, db, inFlight, storeCalls, ret,
                added, lastFlush, nCadence, nFinal>>

paramVars == <<gp_pc, gp_result, cli_pars, env, created, data_folder,
               data_folder_good, log_folder, output_folder, source_file_name,
               data_version, data_date, output_file_name>>

nameVars == <<test_file_name, bare_file_name, nm_pc, nm_compliant, nm_version,
              nm_date, nm_bare_date>>

vars == <<importVars, paramVars, nameVars>>

\* ------------------------------------------------------------ the records

\* A record's full identifier "https://ror.org/<token>", as its segments
\* between the "/" separators. The k-th record's token is written k.
FullId(k) == <<"https:", "", "ror.org", k>>

\* The k-th element of the source array (k = 0, 1, ...): its identifier and
\* how many name and link entries it holds (0, 1 or 2 names, 0 or 1 links).
\* The decoded array is this function on 0..len-1, so res keeps its length.
Record(k) == [id |-> FullId(k), names |-> k % 3, links |-> k % 2]

\* serde_json::from_str on a well-formed document of len elements.
Decode(len) == [decoded |-> TRUE, len |-> len]

NotDecoded == [decoded |-> FALSE, len |-> 0]

\* extract_id_from: the trailing path segment.
extract_id_from(full) == full[Len(full)]

\* ------------------------------------------------- columns of identifiers

\* A column of identifiers (a group's db_ids buffer, a table's id column) is
\* a sequence of identifiers. It is kept as its maximal runs of consecutive
\* identifiers, <<[from |-> a, to |-> b], ...>> standing for a, a+1, .., b:
\* the same sequence, written shortly.
Last(s) == s[Len(s)]

\* The column with identifier id pushed at its end.
Push(col, id) ==
    IF col # <<>> /\ Last(col).to + 1 = id
      THEN [col EXCEPT ![Len(col)].to = id]
      ELSE Append(col, [from |-> id, to |-> id])

\* Column a followed by column b.
Concat(a, b) ==
    IF a # <<>> /\ b # <<>> /\ Last(a).to + 1 = b[1].from
      THEN SubSeq(a, 1, Len(a) - 1)
             \o <<[from |-> Last(a).from, to |-> b[1].to]>>
             \o SubSeq(b, 2, Len(b))
      ELSE a \o b

\* How many identifiers the column holds.
RECURSIVE Size(_)
Size(col) ==
    IF col = <<>> THEN 0
    ELSE (col[1].to - col[1].from + 1) + Size(SubSeq(col, 2, Len(col)))

\* XxxDataVecs::new(vector_size): empty buffers.
NewVecs == <<>>

\* Each add call pushes the record's identifier on the group's db_ids (the
\* detail rows the record fans out to are not kept apart from it).
add_core_data(vecs, rec, id) == Push(vecs, id)

add_required_data(vecs, rec, id) == Push(vecs, id)

add_non_required_data(vecs, rec, id) == Push(vecs, id)

\* store_data: one bulk insert of the group's buffered rows, in buffer order.
\* A failed insert stores nothing and is reported to the caller.
store_data(table, vecs, ok) == IF ok THEN Concat(table, vecs) ELSE table

StoreRet(ok) == IF ok THEN "Ok" ELSE "SqErr"

NoFlush == [kind |-> "none", at |-> 0, held |-> 0]


\* ------------------------------------------------- get_params: the strings

\* A file name, a version and a date are strings read character by
\* character: sequences of one-character strings. A folder path is only
\* compared and looked up: a string, "" for PathBuf::new().
EmptyStr == <<>>

DigitChars == {"0", "1", "2", "3", "4", "5", "6", "7", "8", "9"}

DigitVal(c) ==
    CASE c = "0" -> 0 [] c = "1" -> 1 [] c = "2" -> 2 [] c = "3" -> 3
      [] c = "4" -> 4 [] c = "5" -> 5 [] c = "6" -> 6 [] c = "7" -> 7
      [] c = "8" -> 8 [] OTHER -> 9

DigitChar(d) == <<"0", "1", "2", "3", "4", "5", "6", "7", "8", "9">>[d + 1]

\* The character at place j, "" past the end.
At(s, j) == IF j >= 1 /\ j <= Len(s) THEN s[j] ELSE ""

AllDigits(s) == \A j \in 1..Len(s) : s[j] \in DigitChars

\* The number a string of digits writes.
RECURSIVE Num(_)
Num(s) ==
    IF s = <<>> THEN 0
    ELSE 10 * Num(SubSeq(s, 1, Len(s) - 1)) + DigitVal(s[Len(s)])

\* chrono: the days of a month, and whether year-month-day is a date.
IsLeap(y) == (y % 4 = 0 /\ y % 100 # 0) \/ y % 400 = 0

DaysIn(y, m) ==
    CASE m \in {1, 3, 5, 7, 8, 10, 12} -> 31
      [] m \in {4, 6, 9, 11} -> 30
      [] OTHER -> IF IsLeap(y) THEN 29 ELSE 28

ValidDate(y, m, d) == m \in 1..12 /\ d >= 1 /\ d <= DaysIn(y, m)

\* NaiveDate::to_string: YYYY-MM-DD.
FormatDate(y, m, d) ==
    <<DigitChar(y \div 1000), DigitChar((y \div 100) % 10),
      DigitChar((y \div 10) % 10), DigitChar(y % 10), "-",
      DigitChar(m \div 10), DigitChar(m % 10), "-",
      DigitChar(d \div 10), DigitChar(d % 10)>>

\* NaiveDate::parse_from_str(s, "%Y%m%d") on eight digits, then to_string;
\* "" when it is no date.
ParseCompactDate(s) ==
    IF Len(s) = 8 /\ AllDigits(s)
         /\ ValidDate(Num(SubSeq(s, 1, 4)), Num(SubSeq(s, 5, 6)), Num(SubSeq(s, 7, 8)))
      THEN FormatDate(Num(SubSeq(s, 1, 4)), Num(SubSeq(s, 5, 6)), Num(SubSeq(s, 7, 8)))
      ELSE EmptyStr

\* NaiveDate::parse_from_str(s, "%Y-%m-%d").is_ok(): a year of one to four
\* digits, a month and a day of one or two, hyphens between, nothing after,
\* and the three a date.
ParsesAsDate(s) ==
    \E a \in 1..Len(s), b \in 1..Len(s) :
        /\ a < b /\ s[a] = "-" /\ s[b] = "-"
        /\ LET y == SubSeq(s, 1, a - 1)
               m == SubSeq(s, a + 1, b - 1)
               d == SubSeq(s, b + 1, Len(s))
           IN  /\ Len(y) \in 1..4 /\ Len(m) \in 1..2 /\ Len(d) \in 1..2
               /\ AllDigits(y) /\ AllDigits(m) /\ AllDigits(d)
               /\ ValidDate(Num(y), Num(m), Num(d))

\* The places right after one or more digits that start at place p.
DigitsFrom(s, p) ==
    {q \in (p + 1)..(Len(s) + 1) : \A j \in p..(q - 1) : s[j] \in DigitChars}

\* The places right after a group \.[0-9]+ that starts at a place of P.
DotGroup(s, P) ==
    UNION {IF At(s, q) = "." THEN DigitsFrom(s, q + 1) ELSE {} : q \in P}

\* The places right after a match of ^v[0-9]+(\.[0-9]+){0,2}.
VersionEnds(s) ==
    LET e0 == IF At(s, 1) = "v" THEN DigitsFrom(s, 2) ELSE {}
        e1 == DotGroup(s, e0)
        e2 == DotGroup(s, e1)
    IN  e0 \cup e1 \cup e2

\* The place right after a match of 20[0-9]{2}-?[01][0-9]-?[0-3][0-9] that
\* starts at place p; 0 when there is none.
DateEnd(s, p) ==
    LET q == IF At(s, p + 4) = "-" THEN p + 5 ELSE p + 4
        t == IF At(s, q + 2) = "-" THEN q + 3 ELSE q + 2
    IN  IF /\ At(s, p) = "2" /\ At(s, p + 1) = "0"
           /\ At(s, p + 2) \in DigitChars /\ At(s, p + 3) \in DigitChars
           /\ At(s, q) \in {"0", "1"} /\ At(s, q + 1) \in DigitChars
           /\ At(s, t) \in {"0", "1", "2", "3"} /\ At(s, t + 1) \in DigitChars
         THEN t + 2
         ELSE 0

\* is_compliant_file_name:
\* ^v[0-9]+(\.[0-9]+){0,2}(-| )20[0-9]{2}-?[01][0-9]-?[0-3][0-9]
is_compliant_file_name(input) ==
    \E q \in VersionEnds(input) :
        At(input, q) \in {"-", " "} /\ DateEnd(input, q + 1) # 0

\* get_data_version: the text ^v[0-9]+(\.[0-9]+){0,2} matches, each part
\* taking all it can; "" without a match.
get_data_version(input) ==
    LET Max(S) == CHOOSE q \in S : \A r \in S : r <= q
        e0 == IF At(input, 1) = "v" THEN DigitsFrom(input, 2) ELSE {}
        g1 == IF e0 = {} THEN {} ELSE DotGroup(input, {Max(e0)})
        g2 == IF g1 = {} THEN {} ELSE DotGroup(input, {Max(g1)})
        end == IF g2 # {} THEN Max(g2) ELSE IF g1 # {} THEN Max(g1) ELSE Max(e0)
    IN  IF e0 = {} THEN EmptyStr ELSE SubSeq(input, 1, end - 1)

\* get_data_date with the hyphens left in the text that is parsed.
get_data_date_keeping_hyphens(input) ==
    LET starts == {p \in 1..Len(input) : DateEnd(input, p) # 0}
        p0 == CHOOSE p \in starts : \A r \in starts : p <= r
        putative_date == SubSeq(input, p0, DateEnd(input, p0) - 1)
    IN  IF starts = {} THEN EmptyStr ELSE ParseCompactDate(putative_date)

\* get_data_date: the first text in input that the date pattern matches,
\* its hyphens removed, parsed as %Y%m%d and written YYYY-MM-DD; "" without
\* a match or when the text is no date.
get_data_date(input) ==
    LET starts == {p \in 1..Len(input) : DateEnd(input, p) # 0}
        p0 == CHOOSE p \in starts : \A r \in starts : p <= r
        putative_date == SelectSeq(SubSeq(input, p0, DateEnd(input, p0) - 1),
                                   LAMBDA c : c # "-")
    IN  IF starts = {} THEN EmptyStr ELSE ParseCompactDate(putative_date)

\* ---------------------------------------------- get_params: the inputs

\* "v1.50 2024-12-11.json"
NameA == <<"v", "1", ".", "5", "0", " ", "2", "0", "2", "4", "-", "1", "2", "-", "1", "1", ".", "j", "s", "o", "n">>
\* "v1.58 20241211.json"
NameB == <<"v", "1", ".", "5", "8", " ", "2", "0", "2", "4", "1", "2", "1", "1", ".", "j", "s", "o", "n">>
\* "schema2 data.json"
NamePlain == <<"s", "c", "h", "e", "m", "a", "2", " ", "d", "a", "t", "a", ".", "j", "s", "o", "n">>
\* "v2-2024-19-39.json": the pattern matches, the date is none
NameNoDate == <<"v", "2", "-", "2", "0", "2", "4", "-", "1", "9", "-", "3", "9", ".", "j", "s", "o", "n">>
\* "v1.60", "v1.59"
VersionCli == <<"v", "1", ".", "6", "0">>
VersionEnv == <<"v", "1", ".", "5", "9">>
\* "2026-12-25", "2025-12-11", "2026-02-30", "25.12.2026"
DateCli == <<"2", "0", "2", "6", "-", "1", "2", "-", "2", "5">>
DateEnv == <<"2", "0", "2", "5", "-", "1", "2", "-", "1", "1">>
DateNoDay == <<"2", "0", "2", "6", "-", "0", "2", "-", "3", "0">>
DateDotted == <<"2", "5", ".", "1", "2", ".", "2", "0", "2", "6">>
\* "results", " summary", " at ", ".txt", and the time of the call
OutName == <<"r", "e", "s", "u", "l", "t", "s">>
SummarySuffix == <<" ", "s", "u", "m", "m", "a", "r", "y">>
AtInfix == <<" ", "a", "t", " ">>
TxtSuffix == <<".", "t", "x", "t">>
NowStamp == <<"<now>">>

\* The folders that exist before the call.
ExistingFolders == {"cliData", "envData", "envLogs"}

Flags ==
    [import_ror : BOOLEAN, create_lookups : BOOLEAN, create_summary : BOOLEAN,
     test_run : BOOLEAN]

CliParsSet ==
    [data_folder : {"", "cliData", "cliMissing"},
     source_file : {EmptyStr, NamePlain, NameA, NameNoDate},
     data_version : {EmptyStr, VersionCli},
     data_date : {EmptyStr, DateCli, DateNoDay},
     flags : Flags]

EnvSet ==
    [data_folder : {"", "envData", "envMissing"},
     source_file_name : {EmptyStr, NameB},
     data_version : {EmptyStr, VersionEnv},
     data_date : {EmptyStr, DateEnv, DateDotted}]

\* What the environment may hold for the log and output folders and the
\* output file name (read once each, when get_params comes to them).
EnvLogFolders == {"", "envLogs", "newLogs"}
EnvOutputFolders == {"", "newOutputs"}
EnvOutputNames == {EmptyStr, OutName}

\* get_params is not running.
ParamsOff ==
    /\ gp_pc = "Off"
    /\ gp_result = "none"
    /\ cli_pars = <<>>
    /\ env = <<>>
    /\ created = {}
    /\ data_folder = ""
    /\ data_folder_good = TRUE
    /\ log_folder = ""
    /\ output_folder = ""
    /\ source_file_name = <<>>
    /\ data_version = <<>>
    /\ data_date = <<>>
    /\ output_file_name = <<>>

\* ------------------------------------------- the file names under test

\* A file name is put together from a lead, a major version number, dot
\* groups, a separator, a year, a month and a day with or without hyphens
\* around the month, and a tail. The parts are those of the names in
\* tests::check_file_name_regex_works_1..7, and some of their kind.
Leads == {<<"v">>, <<>>}
Majors == {<<"1">>, <<"2", "0", "2", "0", "1", "2">>}
DotGroups ==
    {<<>>, <<".", "5", "0">>, <<".", "5", "0", ".", "2">>,
     <<".", "5", ".", "0", ".", "1">>, <<".">>}
Separators == {<<" ">>, <<"-">>, <<"-", "-">>, <<" ", " ">>, <<".">>}
Years == {<<"2", "0", "2", "4">>, <<"2", "0", "2", "3">>, <<"1", "9", "9", "9">>}
Months == {<<"1", "2">>, <<"0", "2">>, <<"1", "9">>, <<"2", "2">>, <<"0", "0">>}
Days == {<<"1", "1">>, <<"2", "9">>, <<"3", "0">>, <<"3", "9">>, <<"0", "0">>}
Tails ==
    {<<".", "j", "s", "o", "n">>,
     <<"-", "r", "o", "r", "-", "d", "a", "t", "a", ".", "j", "s", "o", "n">>}
Hyphen == <<"-">>

NameParts ==
    [lead : Leads, major : Majors, groups : DotGroups, sep : Separators,
     year : Years, month : Months, day : Days, h1 : {<<>>, Hyphen},
     h2 : {<<>>, Hyphen}, tail : Tails]

\* The name of the parts, with h1 between year and month and h2 between
\* month and day.
BuildName(parts, h1, h2) ==
    parts.lead \o parts.major \o parts.groups \o parts.sep \o parts.year
       \o h1 \o parts.month \o h2 \o parts.day \o parts.tail

\* No file name is under test.
NamesOff ==
    /\ test_file_name = <<>>
    /\ bare_file_name = <<>>
    /\ nm_pc = "Off"
    /\ nm_compliant = FALSE
    /\ nm_version = <<>>
    /\ nm_date = <<>>
    /\ nm_bare_date = <<>>

\* ------------------------------------------------------------------- Init

Init ==
    /\ ParamsOff
    /\ NamesOff
    /\ source \in Sources
    /\ vector_size \in BatchSizes
    /\ storageFails \in SUBSET (1..MaxFailAt)
    \* the long runs are tried with a healthy store
    /\ source.len \in LongLens =>
          source.readable /\ source.wellFormed /\ storageFails = {}
    \* and with the batch size import_data is built with; the other batch
    \* sizes are tried on the short sources
    /\ source.len \in LongLens => vector_size = RefVectorSize
    \* an unreadable or malformed file has no array to count
    /\ ~(source.readable /\ source.wellFormed) => source.len = 0
    /\ ~source.readable => source.wellFormed
    /\ pc = "Idle"
    /\ result = "none"
    /\ res = NotDecoded
    /\ it = 0
    /\ i = 0
    /\ db_id = 0
    /\ cdv = <<>> /\ rdv = <<>> /\ ndv = <<>>
    /\ n = 0
    /\ total = 0
    /\ db = [core |-> <<>>, req |-> <<>>, nonreq |-> <<>>]
    /\ inFlight = {}
    /\ storeCalls = 0
    /\ ret = "none"
    /\ added = <<>>
    /\ lastFlush = NoFlush
    /\ nCadence = 0
    /\ nFinal = 0

\* ------------------------------------------------------------ import_data

\* fs::read_to_string(source_file_path)
ReadFile ==
    /\ pc = "Idle"
    /\ IF source.readable
         THEN pc' = "StreamOpen" /\ result' = result
         ELSE pc' = "Failed" /\ result' = "IoErr"
    /\ UNCHANGED <<source, vector_size, storageFails, res, it, i, db_id, cdv,
                   rdv, ndv, n, total, db, inFlight, storeCalls, ret, added,
                   lastFlush, nCadence, nFinal>>
    /\ UNCHANGED <<paramVars, nameVars>>

\* ParseJson with a document that does not decode taken as an empty array.
ParseJsonLenient ==
    /\ pc = "StreamOpen"
    /\ res' = Decode(IF source.wellFormed THEN source.len ELSE 0)
    /\ cdv' = NewVecs /\ rdv' = NewVecs /\ ndv' = NewVecs
    /\ n' = 0
    /\ pc' = "LoopHead"
    /\ UNCHANGED <<source, vector_size, storageFails, result, it, i, db_id,
                   total, db, inFlight, storeCalls, ret, added, lastFlush,
                   nCadence, nFinal>>
    /\ UNCHANGED <<paramVars, nameVars>>

\* serde_json::from_str(&data), then the set-up of the three groups and n.
ParseJson ==
    /\ pc = "StreamOpen"
    /\ IF source.wellFormed
         THEN /\ res' = Decode(source.len)
              /\ cdv' = NewVecs /\ rdv' = NewVecs /\ ndv' = NewVecs
              /\ n' = 0
              /\ pc' = "LoopHead"
              /\ result' = result
         ELSE /\ pc' = "Failed" /\ result' = "SdErr"
              /\ UNCHANGED <<res, cdv, rdv, ndv, n>>
    /\ UNCHANGED <<source, vector_size, storageFails, it, i, db_id, total, db,
                   inFlight, storeCalls, ret, added, lastFlush, nCadence,
                   nFinal>>
    /\ UNCHANGED <<paramVars, nameVars>>

\* NextRecord with the array visited from its end (res.iter().rev()).
NextRecordReversed ==
    /\ pc = "LoopHead"
    /\ it < res.len
    /\ i' = it
    /\ it' = it + 1
    /\ db_id' = extract_id_from(Record(res.len - 1 - it).id)
    /\ added' = <<>>
    /\ pc' = "AddCore"
    /\ UNCHANGED <<source, vector_size, storageFails, result, res, cdv, rdv,
                   ndv, n, total, db, inFlight, storeCalls, ret, lastFlush,
                   nCadence, nFinal>>
    /\ UNCHANGED <<paramVars, nameVars>>

\* for (i, r) in res.iter().enumerate(): the next element, and its db_id.
NextRecord ==
    /\ pc = "LoopHead"
    /\ it < res.len
    /\ i' = it
    /\ it' = it + 1
    /\ db_id' = extract_id_from(Record(it).id)
    /\ added' = <<>>
    /\ pc' = "AddCore"
    /\ UNCHANGED <<source, vector_size, storageFails, result, res, cdv, rdv,
                   ndv, n, total, db, inFlight, storeCalls, ret, lastFlush,
                   nCadence, nFinal>>
    /\ UNCHANGED <<paramVars, nameVars>>

\* The residual stores begin (history only).
BeginFinal ==
    /\ lastFlush' = [kind |-> "final", at |-> it, held |-> Size(cdv)]
    /\ nFinal' = nFinal + 1
    /\ nCadence' = nCadence

\* LoopExit with the function gone on to its end: no residual stores.
LoopExitNoFinalFlush ==
    /\ pc = "LoopHead"
    /\ it >= res.len
    /\ pc' = "Report"
    /\ UNCHANGED <<source, vector_size, storageFails, result, res, it, i,
                   db_id, cdv, rdv, ndv, n, total, db, inFlight, storeCalls,
                   ret, added, lastFlush, nCadence, nFinal>>
    /\ UNCHANGED <<paramVars, nameVars>>

\* The iterator is exhausted: on to the residual stores.
LoopExit ==
    /\ pc = "LoopHead"
    /\ it >= res.len
    /\ pc' = "FinalStoreCore"
    /\ BeginFinal
    /\ UNCHANGED <<source, vector_size, storageFails, result, res, it, i,
                   db_id, cdv, rdv, ndv, n, total, db, inFlight, storeCalls,
                   ret, added>>
    /\ UNCHANGED <<paramVars, nameVars>>

\* cdv.add_core_data(r, &db_id);
AddCore ==
    /\ pc = "AddCore"
    /\ cdv' = add_core_data(cdv, Record(i), db_id)
    /\ added' = Append(added, <<"core", db_id>>)
    /\ pc' = "AddRequired"
    /\ UNCHANGED <<source, vector_size, storageFails, result, res, it, i,
                   db_id, rdv, ndv, n, total, db, inFlight, storeCalls, ret,
                   lastFlush, nCadence, nFinal>>
    /\ UNCHANGED <<paramVars, nameVars>>

\* AddRequired with the call skipped for a record that has no name entries.
AddRequiredSkipEmpty ==
    /\ pc = "AddRequired"
    /\ IF Record(i).names = 0
         THEN UNCHANGED <<rdv, added>>
         ELSE /\ rdv' = add_required_data(rdv, Record(i), db_id)
              /\ added' = Append(added, <<"req", db_id>>)
    /\ pc' = "AddNonRequired"
    /\ UNCHANGED <<source, vector_size, storageFails, result, res, it, i,
                   db_id, cdv, ndv, n, total, db, inFlight, storeCalls, ret,
                   lastFlush, nCadence, nFinal>>
    /\ UNCHANGED <<paramVars, nameVars>>

\* rdv.add_required_data(r, &db_id);
AddRequired ==
    /\ pc = "AddRequired"
    /\ rdv' = add_required_data(rdv, Record(i), db_id)
    /\ added' = Append(added, <<"req", db_id>>)
    /\ pc' = "AddNonRequired"
    /\ UNCHANGED <<source, vector_size, storageFails, result, res, it, i,
                   db_id, cdv, ndv, n, total, db, inFlight, storeCalls, ret,
                   lastFlush, nCadence, nFinal>>
    /\ UNCHANGED <<paramVars, nameVars>>

\* ndv.add_non_required_data(r, &db_id);
AddNonRequired ==
    /\ pc = "AddNonRequired"
    /\ ndv' = add_non_required_data(ndv, Record(i), db_id)
    /\ added' = Append(added, <<"nonreq", db_id>>)
    /\ pc' = "BreakCheck"
    /\ UNCHANGED <<source, vector_size, storageFails, result, res, it, i,
                   db_id, cdv, rdv, n, total, db, inFlight, storeCalls, ret,
                   lastFlush, nCadence, nFinal>>
    /\ UNCHANGED <<paramVars, nameVars>>

\* BreakCheck with the function left at the break: no residual stores.
BreakCheckNoFinalFlush ==
    /\ pc = "BreakCheck"
    /\ pc' = IF i > BreakIndex THEN "Report" ELSE "CadenceCheck"
    /\ UNCHANGED <<source, vector_size, storageFails, result, res, it, i,
                   db_id, cdv, rdv, ndv, n, total, db, inFlight, storeCalls,
                   ret, added, lastFlush, nCadence, nFinal>>
    /\ UNCHANGED <<paramVars, nameVars>>

\* if i > 1505 { break; }
BreakCheck ==
    /\ pc = "BreakCheck"
    /\ IF i > BreakIndex
         THEN pc' = "FinalStoreCore" /\ BeginFinal
         ELSE pc' = "CadenceCheck" /\ UNCHANGED <<lastFlush, nCadence, nFinal>>
    /\ UNCHANGED <<source, vector_size, storageFails, result, res, it, i,
                   db_id, cdv, rdv, ndv, n, total, db, inFlight, storeCalls,
                   ret, added>>
    /\ UNCHANGED <<paramVars, nameVars>>

\* CadenceCheck with the index, not the count, tested against the batch size.
CadenceCheckAtIndex ==
    /\ pc = "CadenceCheck"
    /\ IF i % vector_size = 0
         THEN /\ n' = i + 1
              /\ pc' = "CadenceStoreCore"
              /\ lastFlush' = [kind |-> "cadence", at |-> i + 1, held |-> Size(cdv)]
              /\ nCadence' = nCadence + 1
              /\ nFinal' = nFinal
         ELSE /\ pc' = "LoopHead"
              /\ UNCHANGED <<n, lastFlush, nCadence, nFinal>>
    /\ UNCHANGED <<source, vector_size, storageFails, result, res, it, i,
                   db_id, cdv, rdv, ndv, total, db, inFlight, storeCalls, ret,
                   added>>
    /\ UNCHANGED <<paramVars, nameVars>>

\* if (i + 1) % vector_size == 0 { n = i+1; ... }
CadenceCheck ==
    /\ pc = "CadenceCheck"
    /\ IF (i + 1) % vector_size = 0
         THEN /\ n' = i + 1
              /\ pc' = "CadenceStoreCore"
              /\ lastFlush' = [kind |-> "cadence", at |-> i + 1, held |-> Size(cdv)]
              /\ nCadence' = nCadence + 1
              /\ nFinal' = nFinal
         ELSE /\ pc' = "LoopHead"
              /\ UNCHANGED <<n, lastFlush, nCadence, nFinal>>
    /\ UNCHANGED <<source, vector_size, storageFails, result, res, it, i,
                   db_id, cdv, rdv, ndv, total, db, inFlight, storeCalls, ret,
                   added>>
    /\ UNCHANGED <<paramVars, nameVars>>

\* A store_data call is made: its insert is now in flight.
CallStore(at, group, await) ==
    /\ pc = at
    /\ inFlight' = inFlight \cup {group}
    /\ storeCalls' = storeCalls + 1
    /\ pc' = await
    /\ UNCHANGED <<source, vector_size, storageFails, result, res, it, i,
                   db_id, cdv, rdv, ndv, n, total, db, ret, added, lastFlush,
                   nCadence, nFinal>>
    /\ UNCHANGED <<paramVars, nameVars>>

\* The awaited store_data call returns: the rows are stored unless the
\* insert failed. The value it returns is not looked at by import_data.
AwaitStore(at, group, vecs, next) ==
    /\ pc = at
    /\ LET ok == storeCalls \notin storageFails
       IN  /\ db' = [db EXCEPT ![group] = store_data(@, vecs, ok)]
           /\ ret' = StoreRet(ok)
    /\ inFlight' = inFlight \ {group}
    /\ pc' = next
    /\ UNCHANGED <<source, vector_size, storageFails, result, res, it, i,
                   db_id, n, total, storeCalls, added, lastFlush, nCadence,
                   nFinal>>
    /\ UNCHANGED <<paramVars, nameVars>>

\* cdv.store_data(&pool).await; cdv = CoreDataVecs::new(vector_size);
CadenceStoreCore == CallStore("CadenceStoreCore", "core", "CadenceAwaitCore")

\* CadenceAwaitCore with the store_data call left running (not awaited).
CadenceCoreNotAwaited ==
    /\ pc = "CadenceAwaitCore"
    /\ pc' = "CadenceStoreRequired"
    /\ cdv' = NewVecs
    /\ UNCHANGED <<source, vector_size, storageFails, result, res, it, i,
                   db_id, rdv, ndv, n, total, db, inFlight, storeCalls, ret,
                   added, lastFlush, nCadence, nFinal>>
    /\ UNCHANGED <<paramVars, nameVars>>

\* CadenceAwaitCore with the loop resumed after the core store: the other
\* two groups wait for a later flush.
CadenceAwaitCoreOnly ==
    /\ AwaitStore("CadenceAwaitCore", "core", cdv, "LoopHead")
    /\ cdv' = NewVecs
    /\ UNCHANGED <<rdv, ndv>>

\* CadenceAwaitCore with the group not re-created after the store.
CadenceAwaitCoreNoReset ==
    /\ AwaitStore("CadenceAwaitCore", "core", cdv, "CadenceStoreRequired")
    /\ UNCHANGED <<cdv, rdv, ndv>>

CadenceAwaitCore ==
    /\ AwaitStore("CadenceAwaitCore", "core", cdv, "CadenceStoreRequired")
    /\ cdv' = NewVecs
    /\ UNCHANGED <<rdv, ndv>>

\* rdv.store_data(&pool).await; rdv = RequiredDataVecs::new(vector_size);
CadenceStoreRequired ==
    CallStore("CadenceStoreRequired", "req", "CadenceAwaitRequired")

\* CadenceAwaitRequired with the group not re-created after the store.
CadenceAwaitRequiredNoReset ==
    /\ AwaitStore("CadenceAwaitRequired", "req", rdv, "CadenceStoreNonRequired")
    /\ UNCHANGED <<cdv, rdv, ndv>>

CadenceAwaitRequired ==
    /\ AwaitStore("CadenceAwaitRequired", "req", rdv, "CadenceStoreNonRequired")
    /\ rdv' = NewVecs
    /\ UNCHANGED <<cdv, ndv>>

\* ndv.store_data(&pool).await; ndv = NonRequiredDataVecs::new(vector_size);
CadenceStoreNonRequired ==
    CallStore("CadenceStoreNonRequired", "nonreq", "CadenceAwaitNonRequired")

\* CadenceAwaitNonRequired with the group not re-created after the store.
CadenceAwaitNonRequiredNoReset ==
    /\ AwaitStore("CadenceAwaitNonRequired", "nonreq", ndv, "LoopHead")
    /\ UNCHANGED <<cdv, rdv, ndv>>

CadenceAwaitNonRequired ==
    /\ AwaitStore("CadenceAwaitNonRequired", "nonreq", ndv, "LoopHead")
    /\ ndv' = NewVecs
    /\ UNCHANGED <<cdv, rdv>>

\* The residual stores after the loop: the groups are not re-created.
FinalStoreCore == CallStore("FinalStoreCore", "core", "FinalAwaitCore")

FinalAwaitCore ==
    /\ AwaitStore("FinalAwaitCore", "core", cdv, "FinalStoreRequired")
    /\ UNCHANGED <<cdv, rdv, ndv>>

FinalStoreRequired ==
    CallStore("FinalStoreRequired", "req", "FinalAwaitRequired")

FinalAwaitRequired ==
    /\ AwaitStore("FinalAwaitRequired", "req", rdv, "FinalStoreNonRequired")
    /\ UNCHANGED <<cdv, rdv, ndv>>

FinalStoreNonRequired ==
    CallStore("FinalStoreNonRequired", "nonreq", "FinalAwaitNonRequired")

FinalAwaitNonRequired ==
    /\ AwaitStore("FinalAwaitNonRequired", "nonreq", ndv, "Report")
    /\ UNCHANGED <<cdv, rdv, ndv>>

\* info!("Total records processed: {}", n + cdv.db_ids.len()); Ok(())
Report ==
    /\ pc = "Report"
    /\ total' = n + Size(cdv)
    /\ result' = "Ok"
    /\ pc' = "Done"
    /\ UNCHANGED <<source, vector_size, storageFails, res, it, i, db_id, cdv,
                   rdv, ndv, n, db, inFlight, storeCalls, ret, added,
                   lastFlush, nCadence, nFinal>>
    /\ UNCHANGED <<paramVars, nameVars>>

Next ==
    \/ ReadFile
    \/ ParseJson
    \/ NextRecord
    \/ LoopExit
    \/ AddCore
    \/ AddRequired
    \/ AddNonRequired
    \/ BreakCheck
    \/ CadenceCheck
    \/ CadenceStoreCore
    \/ CadenceAwaitCore
    \/ CadenceStoreRequired
    \/ CadenceAwaitRequired
    \/ CadenceStoreNonRequired
    \/ CadenceAwaitNonRequired
    \/ FinalStoreCore
    \/ FinalAwaitCore
    \/ FinalStoreRequired
    \/ FinalAwaitRequired
    \/ FinalStoreNonRequired
    \/ FinalAwaitNonRequired
    \/ Report

Spec == Init /\ [][Next]_vars

\* import_data runs on: it is one sequence of statements, and every await
\* of a store_data call returns.
SpecFair == Spec /\ WF_vars(Next)


\* ------------------------------------------------------------- get_params

\* import_data is not running.
ImportOff ==
    /\ source = [readable |-> FALSE, wellFormed |-> TRUE, len |-> 0]
    /\ vector_size = RefVectorSize
    /\ storageFails = {}
    /\ pc = "Off"
    /\ result = "none"
    /\ res = NotDecoded
    /\ it = 0
    /\ i = 0
    /\ db_id = 0
    /\ cdv = <<>> /\ rdv = <<>> /\ ndv = <<>>
    /\ n = 0
    /\ total = 0
    /\ db = [core |-> <<>>, req |-> <<>>, nonreq |-> <<>>]
    /\ inFlight = {}
    /\ storeCalls = 0
    /\ ret = "none"
    /\ added = <<>>
    /\ lastFlush = NoFlush
    /\ nCadence = 0
    /\ nFinal = 0

InitParams ==
    /\ ImportOff
    /\ NamesOff
    /\ gp_pc = "Start"
    /\ gp_result = "none"
    /\ cli_pars \in CliParsSet
    /\ env \in EnvSet
    /\ created = {}
    /\ data_folder = ""
    /\ data_folder_good = TRUE
    /\ log_folder = ""
    /\ output_folder = ""
    /\ source_file_name = EmptyStr
    /\ data_version = EmptyStr
    /\ data_date = EmptyStr
    /\ output_file_name = EmptyStr

\* folder_exists: try_exists() is Ok(true).
folder_exists(folder_name) == folder_name \in ExistingFolders \cup created

\* env_reader::populate_env_vars()?; cli_reader::fetch_valid_arguments(args)?;
\* either may fail, and get_params then returns the error.
GpReadInputs ==
    /\ gp_pc = "Start"
    /\ \E ok \in BOOLEAN :
          IF ok THEN gp_pc' = "Mode" /\ gp_result' = gp_result
                ELSE gp_pc' = "Failed" /\ gp_result' = "Err"
    /\ UNCHANGED <<cli_pars, env, created, data_folder, data_folder_good,
                   log_folder, output_folder, source_file_name, data_version,
                   data_date, output_file_name>>
    /\ UNCHANGED <<importVars, nameVars>>

\* GpMode with create_summary alone taking the short way out.
GpModeSummaryOnly ==
    /\ gp_pc = "Mode"
    /\ IF cli_pars.flags.create_summary
         THEN /\ data_folder' = ""
              /\ log_folder' = ""
              /\ output_folder' = ""
              /\ source_file_name' = EmptyStr
              /\ output_file_name' = EmptyStr
              /\ data_version' = EmptyStr
              /\ data_date' = EmptyStr
              /\ gp_result' = "Ok"
              /\ gp_pc' = "Done"
         ELSE /\ gp_pc' = "DataFolder"
              /\ UNCHANGED <<data_folder, log_folder, output_folder,
                             source_file_name, output_file_name, data_version,
                             data_date, gp_result>>
    /\ UNCHANGED <<cli_pars, env, created, data_folder_good>>
    /\ UNCHANGED <<importVars, nameVars>>

\* if cli_pars.flags.create_lookups || cli_pars.flags.create_summary { Ok(InitParams {..}) }
GpMode ==
    /\ gp_pc = "Mode"
    /\ IF cli_pars.flags.create_lookups \/ cli_pars.flags.create_summary
         THEN /\ data_folder' = ""
              /\ log_folder' = ""
              /\ output_folder' = ""
              /\ source_file_name' = EmptyStr
              /\ output_file_name' = EmptyStr
              /\ data_version' = EmptyStr
              /\ data_date' = EmptyStr
              /\ gp_result' = "Ok"
              /\ gp_pc' = "Done"
         ELSE /\ gp_pc' = "DataFolder"
              /\ UNCHANGED <<data_folder, log_folder, output_folder,
                             source_file_name, output_file_name, data_version,
                             data_date, gp_result>>
    /\ UNCHANGED <<cli_pars, env, created, data_folder_good>>
    /\ UNCHANGED <<importVars, nameVars>>

\* GpDataFolder with a missing folder an error whatever import_ror is.
GpDataFolderStrict ==
    /\ gp_pc = "DataFolder"
    /\ LET folder == IF cli_pars.data_folder = ""
                       THEN env.data_folder
                       ELSE cli_pars.data_folder
           good == folder_exists(folder)
       IN  /\ data_folder' = folder
           /\ data_folder_good' = good
           /\ IF ~good
                THEN gp_pc' = "Failed" /\ gp_result' = "CsErr"
                ELSE gp_pc' = "LogFolder" /\ gp_result' = gp_result
    /\ UNCHANGED <<cli_pars, env, created, log_folder, output_folder,
                   source_file_name, data_version, data_date,
                   output_file_name>>
    /\ UNCHANGED <<importVars, nameVars>>

\* The data folder: the command line's, the environment's when that is
\* empty; an error when it does not exist and import_ror is set.
GpDataFolder ==
    /\ gp_pc = "DataFolder"
    /\ LET folder == IF cli_pars.data_folder = ""
                       THEN env.data_folder
                       ELSE cli_pars.data_folder
           good == folder_exists(folder)
       IN  /\ data_folder' = folder
           /\ data_folder_good' = good
           /\ IF ~good /\ cli_pars.flags.import_ror
                THEN gp_pc' = "Failed" /\ gp_result' = "CsErr"
                ELSE gp_pc' = "LogFolder" /\ gp_result' = gp_result
    /\ UNCHANGED <<cli_pars, env, created, log_folder, output_folder,
                   source_file_name, data_version, data_date,
                   output_file_name>>
    /\ UNCHANGED <<importVars, nameVars>>

\* A folder read from the environment: the data folder stands in for an
\* empty one when the data folder is good; otherwise the folder is made
\* when it does not exist (create_dir_all("") makes nothing and succeeds).
\* made tells whether a create_dir_all that is needed succeeds.
FolderOrData(fetched) ==
    IF fetched = "" /\ data_folder_good THEN data_folder ELSE fetched

NeedsCreating(fetched) ==
    ~(fetched = "" /\ data_folder_good) /\ ~folder_exists(fetched)

\* let mut log_folder = env_reader::fetch_log_folder(); ...
GpLogFolder ==
    /\ gp_pc = "LogFolder"
    /\ \E fetched \in EnvLogFolders, made \in BOOLEAN :
          /\ log_folder' = FolderOrData(fetched)
          /\ IF NeedsCreating(fetched) /\ fetched # "" /\ ~made
               THEN gp_pc' = "Failed" /\ gp_result' = "IoErr" /\ created' = created
               ELSE /\ gp_pc' = "OutputFolder" /\ gp_result' = gp_result
                    /\ created' = IF NeedsCreating(fetched) /\ fetched # ""
                                    THEN created \cup {fetched} ELSE created
    /\ UNCHANGED <<cli_pars, env, data_folder, data_folder_good, output_folder,
                   source_file_name, data_version, data_date,
                   output_file_name>>
    /\ UNCHANGED <<importVars, nameVars>>

\* let mut output_folder = env_reader::fetch_output_folder(); ...
GpOutputFolder ==
    /\ gp_pc = "OutputFolder"
    /\ \E fetched \in EnvOutputFolders, made \in BOOLEAN :
          /\ output_folder' = FolderOrData(fetched)
          /\ IF NeedsCreating(fetched) /\ fetched # "" /\ ~made
               THEN gp_pc' = "Failed" /\ gp_result' = "IoErr" /\ created' = created
               ELSE /\ gp_pc' = "SourceFile" /\ gp_result' = gp_result
                    /\ created' = IF NeedsCreating(fetched) /\ fetched # ""
                                    THEN created \cup {fetched} ELSE created
    /\ UNCHANGED <<cli_pars, env, data_folder, data_folder_good, log_folder,
                   source_file_name, data_version, data_date,
                   output_file_name>>
    /\ UNCHANGED <<importVars, nameVars>>

\* GpSourceFile with the environment's name preferred to the command line's.
GpSourceFileEnvFirst ==
    /\ gp_pc = "SourceFile"
    /\ LET name == IF env.source_file_name = EmptyStr
                     THEN cli_pars.source_file
                     ELSE env.source_file_name
       IN  /\ source_file_name' = name
           /\ IF name = EmptyStr /\ cli_pars.flags.import_ror
                THEN gp_pc' = "Failed" /\ gp_result' = "CsErr"
                ELSE gp_pc' = "FromName" /\ gp_result' = gp_result
    /\ UNCHANGED <<cli_pars, env, created, data_folder, data_folder_good,
                   log_folder, output_folder, data_version, data_date,
                   output_file_name>>
    /\ UNCHANGED <<importVars, nameVars>>

\* The source file name: the command line's, the environment's when that is
\* empty; an error when both are and import_ror is set.
GpSourceFile ==
    /\ gp_pc = "SourceFile"
    /\ LET name == IF cli_pars.source_file = EmptyStr
                     THEN env.source_file_name
                     ELSE cli_pars.source_file
       IN  /\ source_file_name' = name
           /\ IF name = EmptyStr /\ cli_pars.flags.import_ror
                THEN gp_pc' = "Failed" /\ gp_result' = "CsErr"
                ELSE gp_pc' = "FromName" /\ gp_result' = gp_result
    /\ UNCHANGED <<cli_pars, env, created, data_folder, data_folder_good,
                   log_folder, output_folder, data_version, data_date,
                   output_file_name>>
    /\ UNCHANGED <<importVars, nameVars>>

\* The version and the date a test run fixes, or the file name gives.
GpFromName ==
    /\ gp_pc = "FromName"
    /\ IF cli_pars.flags.test_run
         THEN /\ data_version' = <<"v", "9", "9">>
              /\ data_date' = <<"2", "0", "3", "0", "-", "0", "1", "-", "0", "1">>
         ELSE IF is_compliant_file_name(source_file_name)
                THEN /\ data_version' = get_data_version(source_file_name)
                     /\ data_date' = get_data_date(source_file_name)
                ELSE /\ data_version' = EmptyStr
                     /\ data_date' = EmptyStr
    /\ gp_pc' = "Fallback"
    /\ UNCHANGED <<gp_result, cli_pars, env, created, data_folder,
                   data_folder_good, log_folder, output_folder,
                   source_file_name, output_file_name>>
    /\ UNCHANGED <<importVars, nameVars>>

\* GpFallback with the environment's version and date preferred to the
\* command line's.
GpFallbackEnvFirst ==
    /\ gp_pc = "Fallback"
    /\ IF data_version = EmptyStr \/ data_date = EmptyStr
         THEN LET version == IF env.data_version = EmptyStr
                               THEN cli_pars.data_version
                               ELSE env.data_version
                  cli_date == IF ParsesAsDate(cli_pars.data_date)
                                THEN cli_pars.data_date ELSE EmptyStr
                  env_date == IF ParsesAsDate(env.data_date)
                                THEN env.data_date ELSE EmptyStr
                  date == IF env_date = EmptyStr THEN cli_date ELSE env_date
              IN  /\ data_version' = version
                  /\ IF version = EmptyStr /\ cli_pars.flags.import_ror
                       THEN /\ gp_pc' = "Failed" /\ gp_result' = "CsErr"
                            /\ data_date' = data_date
                       ELSE /\ data_date' = date
                            /\ IF date = EmptyStr /\ cli_pars.flags.import_ror
                                 THEN gp_pc' = "Failed" /\ gp_result' = "CsErr"
                                 ELSE gp_pc' = "OutputName" /\ gp_result' = gp_result
         ELSE /\ gp_pc' = "OutputName"
              /\ UNCHANGED <<data_version, data_date, gp_result>>
    /\ UNCHANGED <<cli_pars, env, created, data_folder, data_folder_good,
                   log_folder, output_folder, source_file_name,
                   output_file_name>>
    /\ UNCHANGED <<importVars, nameVars>>

\* if data_version == "" || data_date == "" { ... }: the version and the
\* date of the command line, of the environment when those are empty (a date
\* counts only when it parses); an error when one is missing and import_ror
\* is set.
GpFallback ==
    /\ gp_pc = "Fallback"
    /\ IF data_version = EmptyStr \/ data_date = EmptyStr
         THEN LET version == IF cli_pars.data_version = EmptyStr
                               THEN env.data_version
                               ELSE cli_pars.data_version
                  cli_date == IF ParsesAsDate(cli_pars.data_date)
                                THEN cli_pars.data_date ELSE EmptyStr
                  env_date == IF ParsesAsDate(env.data_date)
                                THEN env.data_date ELSE EmptyStr
                  date == IF cli_date = EmptyStr THEN env_date ELSE cli_date
              IN  /\ data_version' = version
                  /\ IF version = EmptyStr /\ cli_pars.flags.import_ror
                       THEN /\ gp_pc' = "Failed" /\ gp_result' = "CsErr"
                            /\ data_date' = data_date
                       ELSE /\ data_date' = date
                            /\ IF date = EmptyStr /\ cli_pars.flags.import_ror
                                 THEN gp_pc' = "Failed" /\ gp_result' = "CsErr"
                                 ELSE gp_pc' = "OutputName" /\ gp_result' = gp_result
         ELSE /\ gp_pc' = "OutputName"
              /\ UNCHANGED <<data_version, data_date, gp_result>>
    /\ UNCHANGED <<cli_pars, env, created, data_folder, data_folder_good,
                   log_folder, output_folder, source_file_name,
                   output_file_name>>
    /\ UNCHANGED <<importVars, nameVars>>

\* The output file name, stamped with the time of the call; Ok(InitParams {..}).
GpOutputName ==
    /\ gp_pc = "OutputName"
    /\ \E fetched \in EnvOutputNames :
          output_file_name' =
              (IF fetched = EmptyStr THEN data_version \o SummarySuffix ELSE fetched)
                 \o AtInfix \o NowStamp \o TxtSuffix
    /\ gp_result' = "Ok"
    /\ gp_pc' = "Done"
    /\ UNCHANGED <<cli_pars, env, created, data_folder, data_folder_good,
                   log_folder, output_folder, source_file_name, data_version,
                   data_date>>
    /\ UNCHANGED <<importVars, nameVars>>

NextParams ==
    \/ GpReadInputs
    \/ GpMode
    \/ GpDataFolder
    \/ GpLogFolder
    \/ GpOutputFolder
    \/ GpSourceFile
    \/ GpFromName
    \/ GpFallback
    \/ GpOutputName

SpecParams == InitParams /\ [][NextParams]_vars

\* ------------------------------------------------- the file name functions

InitNames ==
    /\ ImportOff
    /\ ParamsOff
    /\ \E parts \in NameParts :
          /\ test_file_name = BuildName(parts, parts.h1, parts.h2)
          /\ bare_file_name = BuildName(parts, <<>>, <<>>)
    /\ nm_pc = "Compliant"
    /\ nm_compliant = FALSE
    /\ nm_version = <<>>
    /\ nm_date = <<>>
    /\ nm_bare_date = <<>>

\* is_compliant_file_name(&test_file_name)
NmCompliant ==
    /\ nm_pc = "Compliant"
    /\ nm_compliant' = is_compliant_file_name(test_file_name)
    /\ nm_pc' = "Version"
    /\ UNCHANGED <<test_file_name, bare_file_name, nm_version, nm_date,
                   nm_bare_date>>
    /\ UNCHANGED <<importVars, paramVars>>

\* get_data_version(&test_file_name)
NmVersion ==
    /\ nm_pc = "Version"
    /\ nm_version' = get_data_version(test_file_name)
    /\ nm_pc' = "Date"
    /\ UNCHANGED <<test_file_name, bare_file_name, nm_compliant, nm_date,
                   nm_bare_date>>
    /\ UNCHANGED <<importVars, paramVars>>

\* get_data_date(&test_file_name), and of the name without the hyphens
NmDate ==
    /\ nm_pc = "Date"
    /\ nm_date' = get_data_date(test_file_name)
    /\ nm_bare_date' = get_data_date(bare_file_name)
    /\ nm_pc' = "Done"
    /\ UNCHANGED <<test_file_name, bare_file_name, nm_compliant, nm_version>>
    /\ UNCHANGED <<importVars, paramVars>>

NextNames ==
    \/ NmCompliant
    \/ NmVersion
    \/ NmDate

SpecNames == InitNames /\ [][NextNames]_vars

\* ------------------------------------------------------- derived notions

\* import_data has left the loop.
AfterLoop ==
    pc \in {"FinalStoreCore", "FinalAwaitCore", "FinalStoreRequired",
            "FinalAwaitRequired", "FinalStoreNonRequired",
            "FinalAwaitNonRequired", "Report", "Done"}

\* The store_data calls that have returned.
ReturnedCalls == IF inFlight = {} THEN 1..storeCalls ELSE 1..(storeCalls - 1)

\* The store_data calls that have returned a failure.
FailedCalls == storageFails \cap ReturnedCalls

EmptyDb == [core |-> <<>>, req |-> <<>>, nonreq |-> <<>>]

Groups == {"core", "req", "nonreq"}

\* The buffer of a group.
Buffer(g) == CASE g = "core" -> cdv [] g = "req" -> rdv [] OTHER -> ndv

\* The store_data call of group g returns in this step.
Returns(g) == g \in inFlight /\ g \notin inFlight'

\* The identifiers of a column strictly ascend: none is held twice, and none
\* comes after a larger one.
Ascending(col) ==
    \A k \in 1..Len(col) :
        /\ col[k].from <= col[k].to
        /\ k < Len(col) => col[k].to < col[k + 1].from

\* ------------------------------------------------------------------ claims

\* C1: in a run in which every storage write succeeds, the number of rows
\* written to CoreData equals the number of records of the source array,
\* for every batch size and every length.
C1_TotalRowsEqualLength ==
    (pc = "Done" /\ FailedCalls = {}) => Size(db.core) = source.len

\* C2: once a batch insert has failed, import_data does not return Ok, does
\* not reach Done, and issues no further store_data call.
C2_StorageFailurePropagates ==
    FailedCalls # {} =>
        /\ result # "Ok"
        /\ pc # "Done"
        /\ \A k \in FailedCalls : storeCalls <= k

\* C3: a failed read returns IoErr and a failed decode returns SdErr, each
\* without any store_data call; a store_data call implies that the document
\* was read and decoded in full beforehand.
C3_NoWriteUnlessDecoded ==
    /\ storeCalls > 0 =>
          source.readable /\ source.wellFormed /\ res = Decode(source.len)
    /\ (~source.readable /\ pc # "Idle") =>
          pc = "Failed" /\ result = "IoErr" /\ storeCalls = 0
    /\ (source.readable /\ ~source.wellFormed /\ pc \notin {"Idle", "StreamOpen"}) =>
          pc = "Failed" /\ result = "SdErr" /\ storeCalls = 0
    /\ pc = "Failed" => storeCalls = 0 /\ inFlight = {} /\ db = EmptyDb

C3_Witness ==
    pc = "Failed" /\ result = "SdErr" /\ source.readable /\ ~source.wellFormed

\* C4: a cadence flush happens exactly when the running count of processed
\* records is a positive multiple of the batch size: every cadence flush is
\* at such a count, and the iteration that brings the count to `it` has
\* ended with a cadence flush if and only if vector_size divides `it`.
C4_CadenceExactlyAtMultiples ==
    /\ lastFlush.kind = "cadence" =>
          lastFlush.at > 0 /\ lastFlush.at % vector_size = 0
    /\ (it > 0 /\ (pc = "LoopHead" \/ AfterLoop)) =>
          /\ it % vector_size = 0 <=> n = it
          /\ nCadence = it \div vector_size

\* Three records with batch size 2: one cadence flush after the second
\* record wrote two rows, and the final flush wrote the third.
C4_Witness ==
    /\ pc = "Done"
    /\ source.len = 3
    /\ vector_size = 2
    /\ nCadence = 1
    /\ n = 2
    /\ lastFlush = [kind |-> "final", at |-> 3, held |-> 1]
    /\ Size(db.core) = 3

\* C5: after the iteration ends all three groups are flushed exactly once
\* more, also when nothing is left, and the number of records each group
\* holds at that final flush is less than the batch size.
C5_FinalFlushHoldsRemainder ==
    /\ AfterLoop =>
          /\ nFinal = 1
          /\ lastFlush.kind = "final"
          /\ lastFlush.held >= 0
          /\ lastFlush.held < vector_size
          /\ \A g \in Groups : Size(Buffer(g)) < vector_size
    /\ ~AfterLoop => nFinal = 0
    /\ pc \in {"Report", "Done"} =>
          storeCalls = 3 * (nCadence + nFinal)

\* A run whose records divide into whole batches: the final flush was made
\* all the same, holding nothing.
C5_Witness ==
    /\ pc = "Done"
    /\ source.len > 0
    /\ nCadence >= 2
    /\ it = source.len
    /\ it % vector_size = 0
    /\ nFinal = 1
    /\ lastFlush = [kind |-> "final", at |-> it, held |-> 0]
    /\ storeCalls = 3 * (nCadence + 1)

C7_AddOncePerGroupSameId ==
    LET id == extract_id_from(Record(i).id)
    IN  /\ pc = "AddCore" => added = <<>> /\ db_id = id
        /\ pc = "AddRequired" => added = <<<<"core", id>>>>
        /\ pc = "AddNonRequired" => added = <<<<"core", id>>, <<"req", id>>>>
        /\ pc \in {"BreakCheck", "CadenceCheck"} =>
              /\ added = <<<<"core", id>>, <<"req", id>>, <<"nonreq", id>>>>
              /\ Last(cdv).to = id /\ Last(rdv).to = id /\ Last(ndv).to = id
        /\ pc = "LoopHead" =>
              Size(cdv) = Size(rdv) /\ Size(rdv) = Size(ndv)

C7_Witness ==
    /\ pc = "BreakCheck"
    /\ Record(i).names = 0 /\ Record(i).links = 0
    /\ Len(added) = 3

\* C8: the three groups are stored one after another in the order core,
\* required, non-required: at most one store_data call is in flight, it is
\* the one import_data awaits, and the calls cycle through the groups.
C8_StoresOneAfterAnother ==
    /\ Cardinality(inFlight) <= 1
    /\ pc \in {"CadenceAwaitCore", "FinalAwaitCore"} =>
          inFlight = {"core"} /\ storeCalls % 3 = 1
    /\ pc \in {"CadenceAwaitRequired", "FinalAwaitRequired"} =>
          inFlight = {"req"} /\ storeCalls % 3 = 2
    /\ pc \in {"CadenceAwaitNonRequired", "FinalAwaitNonRequired"} =>
          inFlight = {"nonreq"} /\ storeCalls % 3 = 0
    /\ pc \notin {"CadenceAwaitCore", "FinalAwaitCore", "CadenceAwaitRequired",
                  "FinalAwaitRequired", "CadenceAwaitNonRequired",
                  "FinalAwaitNonRequired"} => inFlight = {}

C8_Witness ==
    /\ pc = "CadenceAwaitRequired"
    /\ inFlight = {"req"}
    /\ db.core # <<>>

\* C9: records are accumulated in source-array order and the CoreData rows
\* stored over the run, flush after flush, list the records in source-array
\* order: no record is stored after one with a larger index.
C9_RowsInSourceOrder ==
    /\ Ascending(cdv)
    /\ Ascending(db.core)
    /\ cdv # <<>> => Last(cdv).to < it
    /\ db.core # <<>> => Last(db.core).to < it
    /\ (db.core # <<>> /\ cdv # <<>> /\ pc # "Idle"
          /\ pc \notin {"FinalStoreRequired", "FinalAwaitRequired",
                        "FinalStoreNonRequired", "FinalAwaitNonRequired",
                        "Report", "Done"}) =>
          Last(db.core).to < cdv[1].from

C9_Witness ==
    /\ pc = "Done"
    /\ nCadence >= 1
    /\ cdv # <<>>
    /\ Size(db.core) = source.len
    /\ source.len >= 3

\* The call ran the normal branch: neither create_lookups nor create_summary.
NormalMode ==
    /\ cli_pars # <<>>
    /\ ~cli_pars.flags.create_lookups
    /\ ~cli_pars.flags.create_summary

\* C10: in get_params with neither create_lookups nor create_summary set,
\* the data folder and the source file name returned are the command line's
\* when the command line gives a non-empty one, and the environment's only
\* when the command line's is empty.
C10_CliBeforeEnv ==
    (NormalMode /\ gp_result = "Ok") =>
        /\ cli_pars.data_folder # "" => data_folder = cli_pars.data_folder
        /\ cli_pars.data_folder = "" => data_folder = env.data_folder
        /\ cli_pars.source_file # EmptyStr =>
               source_file_name = cli_pars.source_file
        /\ cli_pars.source_file = EmptyStr =>
               source_file_name = env.source_file_name

\* get_params returned with the command line's data folder, though the
\* environment gave another, and with the environment's source file name,
\* the command line giving none.
C10_Witness ==
    /\ NormalMode
    /\ gp_result = "Ok"
    /\ cli_pars.data_folder = "cliData"
    /\ env.data_folder = "envData"
    /\ data_folder = "cliData"
    /\ cli_pars.source_file = EmptyStr
    /\ env.source_file_name = NameB
    /\ source_file_name = NameB

\* The version of the command line, of the environment when that is empty.
CliOrEnvVersion ==
    IF cli_pars.data_version # EmptyStr THEN cli_pars.data_version
    ELSE env.data_version

\* The date of the command line when it parses as a date, else that of the
\* environment when it parses, else none.
CliOrEnvDate ==
    IF ParsesAsDate(cli_pars.data_date) THEN cli_pars.data_date
    ELSE IF ParsesAsDate(env.data_date) THEN env.data_date
    ELSE EmptyStr

\* get_params returned from the normal branch of a run that is no test run.
ReturnedNormal ==
    NormalMode /\ gp_result = "Ok" /\ ~cli_pars.flags.test_run

\* C11 (as claimed): in get_params (no test run, no lookup or summary flag)
\* a source file name that matches the versioned-name pattern gives the
\* returned version and date, whatever the command line and the environment
\* give; any other name leaves them to the command line, and to the
\* environment when the command line has none.
C11_NameBeforeCliBeforeEnv ==
    ReturnedNormal =>
        IF is_compliant_file_name(source_file_name)
          THEN /\ data_version = get_data_version(source_file_name)
               /\ data_date = get_data_date(source_file_name)
          ELSE /\ data_version = CliOrEnvVersion
               /\ data_date = CliOrEnvDate

\* C11 (amended): the file name gives the returned version and date when it
\* matches the pattern and its date digits are a calendar date; a name that
\* matches the pattern without naming a date counts as one that does not
\* yield both, and the version and the date are then both the command
\* line's, the environment's when the command line has none.
C11_DatedNameBeforeCliBeforeEnv ==
    ReturnedNormal =>
        IF /\ is_compliant_file_name(source_file_name)
           /\ get_data_date(source_file_name) # EmptyStr
          THEN /\ data_version = get_data_version(source_file_name)
               /\ data_version # EmptyStr
               /\ data_date = get_data_date(source_file_name)
          ELSE /\ data_version = CliOrEnvVersion
               /\ data_date = CliOrEnvDate

\* get_params returned the version and the date of the file name, though
\* the command line and the environment gave others.
C11_Witness ==
    /\ ReturnedNormal
    /\ source_file_name = NameA
    /\ cli_pars.data_version = VersionCli
    /\ cli_pars.data_date = DateCli
    /\ env.data_version = VersionEnv
    /\ env.data_date = DateEnv
    /\ data_version = <<"v", "1", ".", "5", "0">>
    /\ data_date = <<"2", "0", "2", "4", "-", "1", "2", "-", "1", "1">>

\* The command line asks for the lookup tables or for the summary.
LookupMode ==
    /\ cli_pars # <<>>
    /\ cli_pars.flags.create_lookups \/ cli_pars.flags.create_summary

\* The arguments and the environment have been read and the flags acted on.
FlagsActedOn == gp_pc \notin {"Off", "Start", "Mode"} /\ gp_result # "Err"

\* C12: with create_lookups or create_summary set get_params returns Ok
\* with the three folders, the two file names, the version and the date all
\* empty, whatever the command line and the environment give besides, and
\* no folder has been looked for or made.
C12_LookupModeReturnsEmpty ==
    (LookupMode /\ FlagsActedOn) =>
        /\ gp_pc = "Done"
        /\ gp_result = "Ok"
        /\ data_folder = "" /\ log_folder = "" /\ output_folder = ""
        /\ source_file_name = EmptyStr /\ output_file_name = EmptyStr
        /\ data_version = EmptyStr /\ data_date = EmptyStr
        /\ created = {}
        /\ data_folder_good

\* get_params returned the empty parameters for create_lookups though
\* import_ror was set, the data folder of the command line does not exist,
\* and both the command line and the environment name a file, a version
\* and a date.
C12_Witness ==
    /\ LookupMode
    /\ gp_pc = "Done"
    /\ gp_result = "Ok"
    /\ cli_pars.flags.create_lookups
    /\ ~cli_pars.flags.create_summary
    /\ cli_pars.flags.import_ror
    /\ cli_pars.data_folder = "cliMissing"
    /\ cli_pars.source_file = NameA
    /\ cli_pars.data_version = VersionCli
    /\ env.data_folder = "envData"
    /\ env.source_file_name = NameB
    /\ env.data_date = DateEnv
    /\ data_folder = ""
    /\ source_file_name = EmptyStr

\* The data folder get_params resolves: the command line's, the
\* environment's when the command line has none.
ResolvedDataFolder ==
    IF cli_pars.data_folder = "" THEN env.data_folder
    ELSE cli_pars.data_folder

\* C13: the step that resolves the data folder fails get_params, with a
\* CsErr, exactly when the folder does not exist and import_ror is set; a
\* custom error is only ever returned with import_ror set; and with
\* import_ror unset a folder that does not exist is returned as it was
\* given.
C13_MissingFolderFailsOnlyImport ==
    /\ [][gp_pc = "DataFolder" =>
             /\ gp_pc' = "Failed" <=>
                   (~folder_exists(ResolvedDataFolder)
                      /\ cli_pars.flags.import_ror)
             /\ gp_pc' = "Failed" => gp_result' = "CsErr"
             /\ gp_pc' # "Failed" => gp_result' = "none"]_vars
    /\ [](gp_result = "CsErr" => cli_pars.flags.import_ror)
    /\ []((NormalMode /\ gp_result = "Ok"
             /\ ~folder_exists(ResolvedDataFolder)) =>
            /\ ~cli_pars.flags.import_ror
            /\ ~data_folder_good
            /\ data_folder = ResolvedDataFolder)

\* get_params failed at the data folder: import_ror is set, the folder of
\* the command line does not exist (that of the environment does), and
\* nothing after the folder was resolved.
C13_Witness ==
    /\ NormalMode
    /\ gp_pc = "Failed"
    /\ gp_result = "CsErr"
    /\ cli_pars.flags.import_ror
    /\ cli_pars.data_folder = "cliMissing"
    /\ env.data_folder = "envData"
    /\ data_folder = "cliMissing"
    /\ ~data_folder_good
    /\ cli_pars.source_file = NameA
    /\ source_file_name = EmptyStr

\* v, digits, and up to two groups of a dot and digits.
IsVersionToken(v) ==
    /\ Len(v) >= 2
    /\ v[1] = "v"
    /\ \A j \in 2..Len(v) : v[j] \in DigitChars \cup {"."}
    /\ v[2] # "." /\ v[Len(v)] # "."
    /\ \A j \in 2..(Len(v) - 1) : ~(v[j] = "." /\ v[j + 1] = ".")
    /\ Cardinality({j \in 2..Len(v) : v[j] = "."}) <= 2

\* v starts the name, and a hyphen or a space follows it.
LeadsName(v, name) ==
    /\ Len(v) < Len(name)
    /\ SubSeq(name, 1, Len(v)) = v
    /\ name[Len(v) + 1] \in {"-", " "}

\* A date of the calendar written YYYY-MM-DD.
IsIsoDate(d) ==
    /\ Len(d) = 10
    /\ d[5] = "-" /\ d[8] = "-"
    /\ AllDigits(SubSeq(d, 1, 4) \o SubSeq(d, 6, 7) \o SubSeq(d, 9, 10))
    /\ ValidDate(Num(SubSeq(d, 1, 4)), Num(SubSeq(d, 6, 7)), Num(SubSeq(d, 9, 10)))

\* The three functions have been applied to a name is_compliant_file_name
\* accepts.
CompliantNameDone == nm_pc = "Done" /\ nm_compliant

\* C14 (as claimed): for a name is_compliant_file_name accepts,
\* get_data_version returns the leading version token, which is not empty,
\* and get_data_date returns a date written YYYY-MM-DD, which is not empty
\* and is the same for the name with and without hyphens in its date.
C14_CompliantNameGivesVersionAndDate ==
    CompliantNameDone =>
        /\ IsVersionToken(nm_version)
        /\ LeadsName(nm_version, test_file_name)
        /\ IsIsoDate(nm_date)
        /\ nm_date = nm_bare_date

\* C14 (amended): for a name is_compliant_file_name accepts,
\* get_data_version returns the leading version token, which is not empty;
\* get_data_date returns a date written YYYY-MM-DD or, when the digits the
\* date pattern matches are no date of the calendar, the empty string; and
\* it returns the same for the name with and without hyphens in its date.
C14_CompliantNameGivesVersionAndMaybeDate ==
    CompliantNameDone =>
        /\ IsVersionToken(nm_version)
        /\ LeadsName(nm_version, test_file_name)
        /\ nm_date = EmptyStr \/ IsIsoDate(nm_date)
        /\ nm_date = nm_bare_date

\* A compliant name that writes its date with hyphens: the version and the
\* date were read from it, and the date is that of the name without them.
C14_Witness ==
    /\ CompliantNameDone
    /\ test_file_name # bare_file_name
    /\ nm_version = <<"v", "1", ".", "5", "0">>
    /\ nm_date = <<"2", "0", "2", "4", "-", "1", "2", "-", "1", "1">>
    /\ nm_bare_date = nm_date

\* C15: in every state of import_data each accumulator group holds the
\* rows of at most vector_size records, however long the source is.
C15_BufferWithinBatch ==
    \A g \in Groups : Size(Buffer(g)) <= vector_size

\* A source longer than several batches: the core group is full, with
\* vector_size records, at the start of a cadence flush that is not the
\* first.
C15_Witness ==
    /\ pc = "CadenceStoreCore"
    /\ vector_size = RefVectorSize
    /\ source.len > 2 * vector_size
    /\ nCadence >= 2
    /\ \A g \in Groups : Size(Buffer(g)) = vector_size

\* The records of the flush cycle started last, as a column: those visited
\* since the cycle before it.
CycleColumn ==
    IF lastFlush.held = 0 THEN <<>>
    ELSE <<[from |-> lastFlush.at - lastFlush.held, to |-> lastFlush.at - 1]>>

\* The groups whose store_data call of the current flush cycle has not
\* returned yet.
Pending ==
    CASE pc \in {"CadenceStoreCore", "CadenceAwaitCore",
                 "FinalStoreCore", "FinalAwaitCore"} -> Groups
      [] pc \in {"CadenceStoreRequired", "CadenceAwaitRequired",
                 "FinalStoreRequired", "FinalAwaitRequired"} -> {"req", "nonreq"}
      [] pc \in {"CadenceStoreNonRequired", "CadenceAwaitNonRequired",
                 "FinalStoreNonRequired", "FinalAwaitNonRequired"} -> {"nonreq"}
      [] OTHER -> {}

\* C16: the rows of a record are never split between flush cycles. Once a
\* record is added the three groups hold the same records; in a cycle each group
\* whose store is still to return holds exactly the records of the cycle,
\* and a store that returns Ok has added exactly those to its table; so
\* with a healthy store the three tables list the same records between
\* cycles.
C16_RecordRowsInOneCycle ==
    /\ [](pc \in {"LoopHead", "BreakCheck", "CadenceCheck"} =>
             (cdv = rdv /\ rdv = ndv))
    /\ [](\A g \in Pending : Buffer(g) = CycleColumn)
    /\ [][\A g \in Groups :
            Returns(g) =>
               db'[g] = IF ret' = "Ok" THEN Concat(db[g], CycleColumn)
                                       ELSE db[g]]_vars
    /\ []((storageFails = {} /\ Pending = {}) =>
             (db.core = db.req /\ db.req = db.nonreq))

\* A run of several records with a healthy store is done: a cadence flush
\* and a final flush that held records were made, and the three tables
\* list the same records, all of the source.
C16_Witness ==
    /\ pc = "Done"
    /\ storageFails = {}
    /\ source.len >= 3
    /\ nCadence >= 1
    /\ lastFlush.kind = "final" /\ lastFlush.held >= 1
    /\ db.core = db.req /\ db.req = db.nonreq
    /\ db.core = <<[from |-> 0, to |-> source.len - 1]>>

\* Identifier k is in the column.
InCol(col, k) == \E j \in 1..Len(col) : col[j].from <= k /\ k <= col[j].to

\* The records looked at one by one: the first, the last of a short source,
\* the last the index guard lets pass, and the one added in the iteration
\* in which the guard stops the loop.
WatchedIds == {0, MaxLen - 1, BreakIndex, BreakIndex + 1}

\* Every record on which add has been called by the time the loop is left.
AddedColumn == IF it = 0 THEN <<>> ELSE <<[from |-> 0, to |-> it - 1]>>

\* C17: with a healthy store, a record that has been added to the core
\* group comes to be in the table of each of the three groups, the record
\* added in the iteration the index guard stops at included; the run comes
\* to Done with every record it added in each table; and no table ever
\* lists a record twice.
C17_AddedIsWrittenOnce ==
    /\ \A k \in WatchedIds :
          (storageFails = {} /\ InCol(cdv, k))
             ~> (\A g \in Groups : InCol(db[g], k))
    /\ (storageFails = {} /\ pc = "LoopHead")
          ~> (pc = "Done" /\ \A g \in Groups : db[g] = AddedColumn)
    /\ [](\A g \in Groups : Ascending(db[g]) /\ Ascending(Buffer(g)))

\* The loop was stopped by the index guard, and the record added in that
\* iteration is in the three tables: the final flush wrote it.
C17_Witness ==
    /\ pc = "Done"
    /\ storageFails = {}
    /\ i = BreakIndex + 1
    /\ it < source.len
    /\ lastFlush.kind = "final"
    /\ \A g \in Groups : InCol(db[g], BreakIndex + 1)
    /\ \A g \in Groups : InCol(Buffer(g), BreakIndex + 1)

\* C18: at Done the total reported is the number of records the run added
\* to the groups and the number of records written to each table, and, when
\* the loop visited the whole source, the number of records of the source.
C18_ReportedTotalIsWritten ==
    pc = "Done" =>
        /\ total = it
        /\ \A g \in Groups : Size(db[g]) = total
        /\ it = source.len => total = source.len

\* The whole decoded array is held: res has every record of the source.
FullArrayHeld == res.decoded /\ res.len > 0 /\ res.len = source.len

\* C19: the decoded record sequence is not kept while rows are accumulated
\* and written: the whole decoded array is never held together with a
\* group that holds rows, nor with a store_data call in flight.
C19_DecodedArrayNotRetained ==
    FullArrayHeld =>
        /\ \A g \in Groups : Buffer(g) = <<>>
        /\ inFlight = {}

\* The state of the loading pipeline that a place of import_data is in.
Phase(at) ==
    CASE at = "Idle" -> "Idle"
      [] at = "StreamOpen" -> "StreamOpen"
      [] at \in {"LoopHead", "AddCore", "AddRequired", "AddNonRequired",
                 "BreakCheck", "CadenceCheck"} -> "Accumulating"
      [] at \in {"CadenceStoreCore", "CadenceAwaitCore",
                 "CadenceStoreRequired", "CadenceAwaitRequired",
                 "CadenceStoreNonRequired", "CadenceAwaitNonRequired"} -> "Flushing"
      [] at \in {"FinalStoreCore", "FinalAwaitCore", "FinalStoreRequired",
                 "FinalAwaitRequired", "FinalStoreNonRequired",
                 "FinalAwaitNonRequired"} -> "FinalFlush"
      [] at \in {"Report", "Done"} -> "Done"
      [] OTHER -> "Failed"

\* Idle -> StreamOpen -> (Accumulating <-> Flushing)* -> FinalFlush -> Done,
\* and Failed from any state that is not terminal.
PhaseSteps ==
    {<<"Idle", "StreamOpen">>, <<"StreamOpen", "Accumulating">>,
     <<"Accumulating", "Flushing">>, <<"Flushing", "Accumulating">>,
     <<"Accumulating", "FinalFlush">>, <<"FinalFlush", "Done">>}
       \cup {<<ph, "Failed">> : ph \in {"Idle", "StreamOpen", "Accumulating",
                                         "Flushing", "FinalFlush"}}

\* C20: import_data, every store_data call returning, ends in Done or in
\* Failed; it goes from state to state only along Idle -> StreamOpen ->
\* (Accumulating <-> Flushing)* -> FinalFlush -> Done, or to Failed; Done
\* is entered from FinalFlush alone; and once it has returned nothing
\* changes any more.
C20_TerminatesAlongThePath ==
    /\ <>(pc \in {"Done", "Failed"})
    /\ [][Phase(pc') # Phase(pc) => <<Phase(pc), Phase(pc')>> \in PhaseSteps]_vars
    /\ [][(pc \in {"Done", "Failed"}) => UNCHANGED importVars]_vars
    /\ [](pc = "Done" => (result = "Ok" /\ nFinal = 1 /\ inFlight = {}))
    /\ [](pc = "Failed" => (result \in {"IoErr", "SdErr"} /\ storeCalls = 0))
    /\ [](result # "none" <=> pc \in {"Done", "Failed"})

\* import_data returned Ok after cadence flushes and the final flush,
\* though a store_data call had failed on the way.
C20_Witness ==
    /\ pc = "Done"
    /\ result = "Ok"
    /\ nCadence >= 2
    /\ nFinal = 1
    /\ storageFails # {}
    /\ storeCalls = 3 * (nCadence + 1)

=============================================================================
